---- MODULE Spec2Model ----
(***************************************************************************)
(* certmagic-generic-s3: a certmagic.Storage on top of an S3 bucket.       *)
(*                                                                         *)
(* The model follows S3Storage as it is written: the constructor           *)
(* NewS3Storage, the lock protocol (Lock, putLockFile, Unlock) and the     *)
(* facade (Store, Load, Delete, Exists, List, Stat).  The bucket is the    *)
(* only shared state.  The minio client is the environment: every call     *)
(* answers with one of the outcomes the code distinguishes with errors.As  *)
(* (success, an ErrorResponse with status 404, an ErrorResponse with       *)
(* another status, an error that is no ErrorResponse).                     *)
(*                                                                         *)
(* Time is counted in ticks of 1/TicksPerSecond second, so that the        *)
(* truncation to whole seconds done by time.Format(time.RFC3339) shows.    *)
(***************************************************************************)
EXTENDS Integers, Sequences, FiniteSets, TLC

(***************************************************************************)
(* Bounds of the model.                                                    *)
(***************************************************************************)
TicksPerSecond == 2
MaxTicks == 3

Callers == {"A", "B"}
Keys == {"a", "b"}
Values == {"v1", "v2"}
Nonces == {1, 2}
KeyLens == {0, 16, 32, 33}

(***************************************************************************)
(* Package-level thresholds.                                               *)
(***************************************************************************)
LockExpiration == 120 * TicksPerSecond
LockPollInterval == 1 * TicksPerSecond
LockTimeout == 15 * TicksPerSecond

SecretKeyLen == 32

\* opts.ObjPrefix of the handle under study
ObjPrefix == "p"

(***************************************************************************)
(* Go error values.  fmt.Errorf("...: %w", err) keeps err reachable for    *)
(* errors.As; Wrapped models that.                                         *)
(***************************************************************************)
Nil == "nil"
Resp404 == "minio.ErrorResponse{404}"
Resp500 == "minio.ErrorResponse{500}"
NetErr == "net error"
ErrNotExist == "fs.ErrNotExist"
CtxErr == "ctx.Err()"
ErrKeyLen == "encryption key must have exactly 32 bytes"

Wrapped(msg, err) == msg \o ": " \o err

\* errors.As(err, &respErr) on an error as the client returns it
IsErrorResponse(err) == err \in {Resp404, Resp500}

\* errors.As(err, &respErr) && respErr.StatusCode == http.StatusNotFound
IsNotFound(err) == IsErrorResponse(err) /\ err = Resp404

(***************************************************************************)
(* Object contents.  A blob is a record so that all blobs compare.         *)
(***************************************************************************)
Absent == [kind |-> "absent", n |-> 0, v |-> ""]
Raw(v) == [kind |-> "raw", n |-> 0, v |-> v]
Corrupt == Raw("garbage")

\* the time written as Unix seconds (strconv.FormatInt(t.Unix(), 10)), which
\* time.Parse(time.RFC3339, ...) rejects
FormatUnix(t) == [kind |-> "unix", n |-> t \div TicksPerSecond, v |-> ""]

\* time.Now().Format(time.RFC3339): the text of t, whole seconds only
FormatRFC3339(t) == [kind |-> "rfc3339", n |-> t \div TicksPerSecond, v |-> ""]

\* time.Parse(time.RFC3339, string(buf)): <<ok, instant>>
ParseRFC3339(buf) ==
    IF buf.kind = "rfc3339" THEN <<TRUE, buf.n * TicksPerSecond>>
    ELSE <<FALSE, 0>>

(***************************************************************************)
(* Resource key -> object key.                                             *)
(***************************************************************************)
objName(key) == ObjPrefix \o "/" \o key

objLockName(key) == objName(key) \o ".lock"

\* an object of the bucket that lies outside the handle's prefix
ForeignObject == "q/a"

ObjectNames ==
    {objName(k) : k \in Keys} \cup {objLockName(k) : k \in Keys}
    \cup {objName(objLockName(k)) : k \in Keys} \cup {ForeignObject}

HasPrefix(s, pre) == Len(pre) <= Len(s) /\ SubSeq(s, 1, Len(pre)) = pre

VARIABLES
    now,        \* wall clock, in ticks
    nticks,     \* clock steps taken so far
    store,      \* the bucket: object key -> blob (Absent when there is none)
    pc,         \* per caller: where its Lock call stands ("idle": no call)
    lk,         \* per caller: the locals of its Lock call
    holds,      \* per caller: keys it locked and has not called Unlock for
    rt,         \* progress of one caller's Lock, Unlock, Lock sequence on a key
    gs,         \* the *S3Storage handle NewS3Storage returned (built or not)
    stored,     \* per key: what the handle stored last, no Store or Delete since
    last        \* the call that returned in the last step, and what it returned

vars == <<now, nticks, store, pc, lk, holds, rt, gs, stored, last>>

(***************************************************************************)
(* The minio client, as the code sees it.  A request either takes effect   *)
(* and returns nil, or fails and leaves the bucket alone.                  *)
(***************************************************************************)
\* GetObject + ioutil.ReadAll of an object; StatObject answers the same way
GetOutcomes(name) ==
    IF store[name] = Absent THEN {Resp404, Resp500, NetErr}
    ELSE {Nil, Resp500, NetErr}

PutOutcomes == {Nil, Resp500, NetErr}

\* RemoveObject: removing what is not there is answered with nil or with 404
RemoveOutcomes(name) ==
    IF store[name] = Absent THEN {Nil, Resp404, Resp500, NetErr}
    ELSE {Nil, Resp500, NetErr}

PutObject(name, blob, err) ==
    IF err = Nil THEN [store EXCEPT ![name] = blob] ELSE store

RemoveObject(name, err) ==
    IF err = Nil THEN [store EXCEPT ![name] = Absent] ELSE store

(***************************************************************************)
(* Bookkeeping of calls (not program state): the locals of a running Lock, *)
(* and the record of the call that has just returned.                      *)
(***************************************************************************)
NoCall ==
    [key |-> "", startedAt |-> 0, cancelled |-> FALSE, wakeAt |-> 0,
     polls |-> 0, muts |-> 0, late |-> 0, firstStale |-> FALSE,
     branch |-> "", heldBy |-> "none",
     deleted |-> "", delErr |-> "", foreign |-> 0, rival |-> FALSE,
     overdue |-> FALSE]

NoEvent ==
    [op |-> "none", caller |-> "", key |-> "", err |-> Nil, resp |-> Nil,
     polls |-> 0, muts |-> 0, late |-> 0, firstStale |-> FALSE, branch |-> "",
     prevTs |-> FALSE, prevAge |-> 0, prevHeld |-> FALSE,
     recAfter |-> Absent, present |-> FALSE, rt |-> 0,
     arg |-> Absent, val |-> Absent, stored |-> Absent, keys |-> <<>>,
     exists |-> FALSE, keyLen |-> 0, handle |-> FALSE, calls |-> <<>>,
     deleted |-> "", delErr |-> "", foreign |-> 0, rival |-> FALSE,
     put |-> FALSE, held |-> FALSE]

RtNone == [stage |-> 0, caller |-> "", key |-> ""]

\* The sequence under watch: stage 1 after caller's Lock(key) succeeded, 2 after
\* its Unlock(key) succeeded, 3 from its next Lock(key) on.  It is given up
\* as soon as another caller acts on the lock of key, or the caller does
\* something else with it.
RtStage(p, k) == IF rt.caller = p /\ rt.key = k THEN rt.stage ELSE 0

\* caller q acts on the lock of k, which puts its own sequence at stage own
Touch(q, k, own) ==
    IF own > 0 THEN [stage |-> own, caller |-> q, key |-> k]
    ELSE IF rt.key = k \/ rt.caller = q THEN RtNone
    ELSE rt

NoPut == [prevTs |-> FALSE, prevAge |-> 0, prevHeld |-> FALSE, put |-> FALSE,
          resp |-> Nil]

\* the Lock call of p returns err
LockReturn(p, err, muts, x) ==
    /\ pc' = [pc EXCEPT ![p] = "idle"]
    /\ lk' = [lk EXCEPT ![p] = NoCall]
    /\ last' = [NoEvent EXCEPT !.op = "Lock", !.caller = p, !.key = lk[p].key,
                               !.err = err, !.polls = lk[p].polls,
                               !.muts = muts, !.late = lk[p].late,
                               !.firstStale = lk[p].firstStale,
                               !.branch = lk[p].branch,
                               !.prevTs = x.prevTs, !.prevAge = x.prevAge,
                               !.prevHeld = x.prevHeld,
                               !.put = x.put, !.resp = x.resp,
                               !.deleted = lk[p].deleted,
                               !.delErr = lk[p].delErr,
                               !.foreign = lk[p].foreign,
                               !.rival = lk[p].rival,
                               !.recAfter = store'[objLockName(lk[p].key)],
                               !.rt = RtStage(p, lk[p].key)]
    /\ holds' = [holds EXCEPT ![p] =
                    IF err = Nil THEN @ \cup {lk[p].key} ELSE @]
    /\ rt' = Touch(p, lk[p].key,
                   IF err = Nil /\ RtStage(p, lk[p].key) = 0
                   THEN IF rt.stage = 0 \/ rt.key = lk[p].key \/ rt.caller = p
                        THEN 1 ELSE 0
                   ELSE IF err \in {Nil, CtxErr} THEN RtStage(p, lk[p].key) ELSE 0)

\* the Lock call of p goes on: to pc "next", on branch b
LockGoOn(p, next, b, wakeAt) ==
    /\ pc' = [pc EXCEPT ![p] = next]
    /\ lk' = [lk EXCEPT ![p].branch = b, ![p].wakeAt = wakeAt,
                        ![p].startedAt = IF next \in {"put", "delete"} THEN 0 ELSE @,
                        ![p].firstStale =
                            IF lk[p].polls = 0
                            THEN LET old == ParseRFC3339(store[objLockName(lk[p].key)])
                                 IN  old[1] /\ lk[p].startedAt - old[2] > LockExpiration
                            ELSE @,
                        ![p].rival =
                            /\ b = "absent"
                            /\ \E q \in Callers \ {p} :
                                  /\ pc[q] = "put"
                                  /\ lk[q].key = lk[p].key
                                  /\ lk[q].branch = "absent",
                        ![p].overdue =
                            /\ next = "select"
                            /\ LET old == ParseRFC3339(store[objLockName(lk[p].key)])
                               IN  old[1] /\ now - old[2] > LockExpiration]
    /\ rt' = Touch(p, lk[p].key, RtStage(p, lk[p].key))
    /\ last' = NoEvent
    /\ UNCHANGED holds

(***************************************************************************)
(* Lock.                                                                   *)
(***************************************************************************)
\* LockBranch with the two comparisons turned round (the lock file's time
\* plus the threshold against startedAt)
LockBranchTurned(startedAt, buf) ==
    LET parsed == ParseRFC3339(buf)
        lockedAt == parsed[2]
    IN  IF ~parsed[1] THEN "corrupt"
        ELSE IF lockedAt + LockTimeout > startedAt THEN "expired"
        ELSE IF lockedAt + LockExpiration > startedAt THEN "stale"
        ELSE "held"

\* what Lock does with the bytes of an existing lock file
LockBranch(startedAt, buf) ==
    LET parsed == ParseRFC3339(buf)
        lockedAt == parsed[2]
    IN  IF ~parsed[1] THEN "corrupt"
        ELSE IF startedAt + LockTimeout > lockedAt THEN "expired"
        ELSE IF startedAt + LockExpiration > lockedAt THEN "stale"
        ELSE "held"

\* a select without the ctx.Done() case (a plain time.Sleep)
CtxNeverDone(p) == FALSE

\* case <-ctx.Done() of the select is ready
CtxDone(p) == lk[p].cancelled

\* gs.Lock(ctx, key) is called: startedAt := time.Now()
LockCall(p, k) ==
    /\ gs.built
    /\ pc[p] = "idle"
    /\ pc' = [pc EXCEPT ![p] = "get"]
    /\ lk' = [lk EXCEPT ![p] =
                [NoCall EXCEPT !.key = k, !.startedAt = now,
                               !.heldBy = IF \E q \in Callers \ {p} : k \in holds[q]
                                          THEN CHOOSE q \in Callers \ {p} : k \in holds[q]
                                          ELSE "none"]]
    /\ rt' = Touch(p, k, IF RtStage(p, k) = 2 THEN 3 ELSE 0)
    /\ last' = NoEvent
    /\ UNCHANGED <<now, nticks, store, holds, gs, stored>>

\* one pass of the loop up to the select: GetObject, ReadAll, Parse, the two
\* comparisons; the select is entered (and left at once when ctx is done)
LockGet(p) ==
    /\ pc[p] = "get"
    /\ UNCHANGED <<now, nticks, store, gs, stored>>
    /\ LET lockFile == objLockName(lk[p].key)
       IN \E err \in GetOutcomes(lockFile), atRead \in BOOLEAN :
            IF IsNotFound(err)
            THEN LockGoOn(p, "put", "absent", 0)
            ELSE IF err # Nil
            THEN LockReturn(p, Wrapped(IF atRead THEN "reading lock file"
                                       ELSE "acquiring lock failed", err),
                            lk[p].muts, [NoPut EXCEPT !.resp = err])
            ELSE LET b == LockBranch(lk[p].startedAt, store[lockFile])
                 IN  IF b \in {"corrupt", "expired"}
                     THEN LockGoOn(p, "put", b, 0)
                     ELSE IF b = "stale"
                     THEN LockGoOn(p, "delete", b, 0)
                     ELSE IF CtxDone(p)
                     THEN LockReturn(p, CtxErr, lk[p].muts, NoPut)
                     ELSE LockGoOn(p, "select", b, now + LockPollInterval)

\* LockDelete that, having removed the stale lock file, waits and goes round
\* the loop again instead of writing the lock file
LockDeleteRetry(p) ==
    /\ pc[p] = "delete"
    /\ LET lockFile == objLockName(lk[p].key)
           target == objName(lockFile)
       IN \E err \in RemoveOutcomes(target) :
            /\ store' = RemoveObject(target, err)
            /\ IF err # Nil /\ IsErrorResponse(err) /\ ~IsNotFound(err)
               THEN LockReturn(p, Wrapped("unable to delete stale lockfile; deadlocked", err),
                               lk[p].muts, NoPut)
               ELSE /\ pc' = [pc EXCEPT ![p] = "select"]
                    /\ lk' = [lk EXCEPT ![p].muts = IF err = Nil THEN @ + 1 ELSE @,
                                        ![p].wakeAt = now + LockPollInterval]
                    /\ rt' = Touch(p, lk[p].key, RtStage(p, lk[p].key))
                    /\ last' = NoEvent
                    /\ UNCHANGED holds
    /\ UNCHANGED <<now, nticks, gs, stored>>

\* the stale branch: gs.Delete(ctx, lockFile), then on to putLockFile unless
\* the error is an ErrorResponse with a status other than 404
LockDelete(p) ==
    /\ pc[p] = "delete"
    /\ LET lockFile == objLockName(lk[p].key)
           target == objName(lockFile)
       IN \E err \in RemoveOutcomes(target) :
            /\ store' = RemoveObject(target, err)
            /\ IF err # Nil /\ IsErrorResponse(err) /\ ~IsNotFound(err)
               THEN LockReturn(p, Wrapped("unable to delete stale lockfile; deadlocked", err),
                               lk[p].muts, [NoPut EXCEPT !.resp = err])
               ELSE /\ pc' = [pc EXCEPT ![p] = "put"]
                    /\ lk' = [lk EXCEPT ![p].muts = IF err = Nil THEN @ + 1 ELSE @,
                                        ![p].deleted = target,
                                        ![p].delErr = err,
                                        ![p].foreign =
                                            IF /\ err = Nil
                                               /\ target # lockFile
                                               /\ store[target] # Absent
                                            THEN 1 ELSE @]
                    /\ rt' = Touch(p, lk[p].key, RtStage(p, lk[p].key))
                    /\ last' = NoEvent
                    /\ UNCHANGED holds
    /\ UNCHANGED <<now, nticks, gs, stored>>

\* putLockFile as a conditional write (If-None-Match: *): the bucket refuses
\* it when there is a lock file
putLockFileIfAbsent(p) ==
    /\ pc[p] = "put"
    /\ LET k == lk[p].key
           lockFile == objLockName(k)
           blob == FormatRFC3339(now)
           old == ParseRFC3339(store[lockFile])
       IN \E e \in PutOutcomes :
            LET err == IF store[lockFile] # Absent /\ e = Nil
                       THEN "minio.ErrorResponse{412}" ELSE e
            IN  /\ store' = PutObject(lockFile, blob, err)
                /\ LockReturn(p, err,
                              IF err = Nil THEN lk[p].muts + 1 ELSE lk[p].muts,
                              [put |-> TRUE, resp |-> err,
                               prevTs |-> old[1],
                               prevAge |-> IF old[1] THEN now - old[2] ELSE 0,
                               prevHeld |-> /\ lk[p].heldBy # "none"
                                            /\ k \in holds[lk[p].heldBy]])
    /\ UNCHANGED <<now, nticks, gs, stored>>

\* return gs.putLockFile(ctx, key)
putLockFile(p) ==
    /\ pc[p] = "put"
    /\ LET k == lk[p].key
           lockFile == objLockName(k)
           blob == FormatRFC3339(now)
           old == ParseRFC3339(store[lockFile])
       IN \E err \in PutOutcomes :
            /\ store' = PutObject(lockFile, blob, err)
            /\ LockReturn(p, err,
                          IF err = Nil THEN lk[p].muts + 1 ELSE lk[p].muts,
                          [put |-> TRUE, resp |-> err,
                           prevTs |-> old[1],
                           prevAge |-> IF old[1] THEN now - old[2] ELSE 0,
                           prevHeld |-> /\ lk[p].heldBy # "none"
                                        /\ k \in holds[lk[p].heldBy]])
    /\ UNCHANGED <<now, nticks, gs, stored>>

\* a timer case that waits another interval without reading the lock file
\* again
LockTimerSleep(p) ==
    /\ pc[p] = "select"
    /\ now >= lk[p].wakeAt
    /\ lk' = [lk EXCEPT ![p].polls = 1, ![p].wakeAt = now + LockPollInterval,
                        ![p].late = IF lk[p].cancelled THEN @ + 1 ELSE @]
    /\ rt' = Touch(p, lk[p].key, RtStage(p, lk[p].key))
    /\ last' = NoEvent
    /\ UNCHANGED <<now, nticks, store, pc, holds, gs, stored>>

\* case <-time.After(LockPollInterval): the loop goes round
LockTimer(p) ==
    /\ pc[p] = "select"
    /\ now >= lk[p].wakeAt
    /\ pc' = [pc EXCEPT ![p] = "get"]
    /\ lk' = [lk EXCEPT ![p].polls = 1, ![p].wakeAt = 0,
                        ![p].late = IF lk[p].cancelled THEN @ + 1 ELSE @]
    /\ rt' = Touch(p, lk[p].key, RtStage(p, lk[p].key))
    /\ last' = NoEvent
    /\ UNCHANGED <<now, nticks, store, holds, gs, stored>>

\* case <-ctx.Done(): return ctx.Err()
LockCtxDone(p) ==
    /\ pc[p] = "select"
    /\ CtxDone(p)
    /\ UNCHANGED <<now, nticks, store, gs, stored>>
    /\ LockReturn(p, CtxErr, lk[p].muts, NoPut)

\* the caller's context is cancelled, or its deadline passes
Cancel(p) ==
    /\ pc[p] # "idle"
    /\ ~lk[p].cancelled
    /\ lk' = [lk EXCEPT ![p].cancelled = TRUE]
    /\ last' = NoEvent
    /\ UNCHANGED <<now, nticks, store, pc, holds, rt, gs, stored>>

(***************************************************************************)
(* Unlock.                                                                 *)
(***************************************************************************)
\* Unlock that removes the object of the key instead of its lock file
UnlockObject(p, k) ==
    /\ gs.built
    /\ pc[p] = "idle"
    /\ \E err \in RemoveOutcomes(objName(k)) :
         /\ store' = RemoveObject(objName(k), err)
         /\ last' = [NoEvent EXCEPT !.op = "Unlock", !.caller = p, !.key = k,
                                    !.err = err, !.resp = err,
                                    !.present = store[objLockName(k)] # Absent,
                                    !.recAfter = store'[objLockName(k)],
                                    !.rt = RtStage(p, k)]
         /\ rt' = Touch(p, k, IF RtStage(p, k) \in {1, 3} /\ err = Nil
                              THEN 2 ELSE 0)
    /\ holds' = [holds EXCEPT ![p] = @ \ {k}]
    /\ UNCHANGED <<now, nticks, pc, lk, gs, stored>>

Unlock(p, k) ==
    /\ gs.built
    /\ pc[p] = "idle"
    /\ \E err \in RemoveOutcomes(objLockName(k)) :
         /\ store' = RemoveObject(objLockName(k), err)
         /\ last' = [NoEvent EXCEPT !.op = "Unlock", !.caller = p, !.key = k,
                                    !.err = err, !.resp = err,
                                    !.held = k \in holds[p],
                                    !.present = store[objLockName(k)] # Absent,
                                    !.recAfter = store'[objLockName(k)],
                                    !.rt = RtStage(p, k)]
         /\ rt' = Touch(p, k, IF RtStage(p, k) \in {1, 3} /\ err = Nil
                              THEN 2 ELSE 0)
    /\ holds' = [holds EXCEPT ![p] = @ \ {k}]
    /\ UNCHANGED <<now, nticks, pc, lk, gs, stored>>

(***************************************************************************)
(* The clock.                                                              *)
(***************************************************************************)
TickSteps == {1, LockTimeout, LockExpiration}

Tick(d) ==
    /\ nticks < MaxTicks
    /\ now' = now + d
    /\ nticks' = nticks + 1
    /\ last' = NoEvent
    /\ UNCHANGED <<store, pc, lk, holds, rt, gs, stored>>

(***************************************************************************)
(* The IO wrappers (gs.iowrap): CleartextIO and SecretBoxIO.               *)
(***************************************************************************)
\* iowrap.ByteReader(value): the bytes that are stored for value
ByteReader(iowrap, value, nonce) ==
    IF iowrap = "CleartextIO" THEN value
    ELSE [kind |-> "secretbox", n |-> nonce, v |-> value.v]

\* ioutil.ReadAll(iowrap.WrapReader(r)): <<ok, plaintext>>
WrapReader(iowrap, blob) ==
    IF iowrap = "CleartextIO" THEN <<TRUE, blob>>
    ELSE IF blob.kind = "secretbox" THEN <<TRUE, Raw(blob.v)>>
    ELSE <<FALSE, Absent>>

ErrDecrypt == "secretbox: decryption failed"

(***************************************************************************)
(* NewS3Storage.                                                           *)
(***************************************************************************)
NoHandle == [built |-> FALSE, iowrap |-> "none"]

\* NewS3StorageRun with the client and the bucket check ahead of the key check
NewS3StorageConnectFirst(keyLen, newErr, exists, existsErr) ==
    LET iowrap == IF keyLen = 0 THEN "CleartextIO" ELSE "SecretBoxIO"
        handle == [built |-> TRUE, iowrap |-> iowrap]
    IN  IF newErr # Nil
        THEN [handle |-> NoHandle, err |-> Wrapped("geting s3 client", newErr),
              calls |-> <<"minio.New">>]
        ELSE IF existsErr # Nil
        THEN [handle |-> NoHandle,
              err |-> Wrapped("checking if bucket exists", existsErr),
              calls |-> <<"minio.New", "BucketExists">>]
        ELSE IF ~exists
        THEN [handle |-> NoHandle, err |-> "S3 bucket does not exist",
              calls |-> <<"minio.New", "BucketExists">>]
        ELSE IF keyLen # 0 /\ keyLen # SecretKeyLen
        THEN [handle |-> NoHandle, err |-> ErrKeyLen,
              calls |-> <<"minio.New", "BucketExists", "len(opts.EncryptionKey)">>]
        ELSE [handle |-> handle, err |-> Nil,
              calls |-> <<"minio.New", "BucketExists", "len(opts.EncryptionKey)">>]

\* the steps NewS3Storage takes for a key of keyLen bytes, when minio.New
\* answers newErr and BucketExists answers <<exists, existsErr>>
NewS3StorageRun(keyLen, newErr, exists, existsErr) ==
    LET iowrap == IF keyLen = 0 THEN "CleartextIO" ELSE "SecretBoxIO"
        handle == [built |-> TRUE, iowrap |-> iowrap]
    IN  IF keyLen # 0 /\ keyLen # SecretKeyLen
        THEN [handle |-> NoHandle, err |-> ErrKeyLen,
              calls |-> <<"len(opts.EncryptionKey)">>]
        ELSE IF newErr # Nil
        THEN [handle |-> NoHandle, err |-> Wrapped("geting s3 client", newErr),
              calls |-> <<"len(opts.EncryptionKey)", "minio.New">>]
        ELSE IF existsErr # Nil
        THEN [handle |-> NoHandle,
              err |-> Wrapped("checking if bucket exists", existsErr),
              calls |-> <<"len(opts.EncryptionKey)", "minio.New", "BucketExists">>]
        ELSE IF ~exists
        THEN [handle |-> NoHandle, err |-> "S3 bucket does not exist",
              calls |-> <<"len(opts.EncryptionKey)", "minio.New", "BucketExists">>]
        ELSE [handle |-> handle, err |-> Nil,
              calls |-> <<"len(opts.EncryptionKey)", "minio.New", "BucketExists">>]

NewS3Storage ==
    /\ \E keyLen \in KeyLens, newErr \in {Nil, "invalid endpoint"},
          exists \in BOOLEAN, existsErr \in {Nil, NetErr} :
         LET r == NewS3StorageRun(keyLen, newErr, exists, existsErr)
         IN  /\ gs' = IF r.err = Nil THEN r.handle ELSE gs
             /\ last' = [NoEvent EXCEPT !.op = "NewS3Storage", !.keyLen = keyLen,
                                        !.err = r.err, !.handle = r.handle.built,
                                        !.calls = r.calls]
             /\ stored' = IF r.err = Nil THEN [k \in Keys |-> Absent] ELSE stored
    /\ UNCHANGED <<now, nticks, store, pc, lk, holds, rt>>

(***************************************************************************)
(* The facade: Store, Load, Delete, Exists, List, Stat.                    *)
(***************************************************************************)
\* the bucket's listing order (lexicographic)
NameOrder ==
    <<objName("a"), objLockName("a"), objName("b"), objLockName("b"),
      objName(objLockName("a")), objName(objLockName("b")), ForeignObject>>

\* ListObjects(Prefix: pre, Recursive: true) when nothing fails
ListObjects(pre) ==
    LET Has(n) == store[n] # Absent /\ HasPrefix(n, pre)
    IN  SelectSeq(NameOrder, Has)

ListPrefixes == {"", "a", "b"}

\* how a listing ends: complete, or with an ObjectInfo that carries an error
ListOutcomes == {Nil, Resp500, NetErr}

\* Store that writes value as it is, past the wrapper
StoreUnwrapped(k, value) ==
    /\ gs.built
    /\ \E err \in PutOutcomes :
         /\ store' = PutObject(objName(k), value, err)
         /\ last' = [NoEvent EXCEPT !.op = "Store", !.key = k, !.arg = value,
                                    !.resp = err, !.err = err,
                                    !.present = store[objName(k)] # Absent,
                                    !.val = store'[objName(k)]]
         /\ stored' = [stored EXCEPT ![k] = IF err = Nil THEN value ELSE Absent]
    /\ UNCHANGED <<now, nticks, pc, lk, holds, rt, gs>>

Store(k, value) ==
    /\ gs.built
    /\ \E err \in PutOutcomes, nonce \in Nonces :
         LET r == ByteReader(gs.iowrap, value, nonce)
         IN  /\ store' = PutObject(objName(k), r, err)
             /\ last' = [NoEvent EXCEPT !.op = "Store", !.key = k, !.arg = value,
                                        !.resp = err, !.err = err,
                                        !.present = store[objName(k)] # Absent,
                                        !.val = store'[objName(k)]]
             /\ stored' = [stored EXCEPT ![k] = IF err = Nil THEN value ELSE Absent]
    /\ UNCHANGED <<now, nticks, pc, lk, holds, rt, gs>>

Load(k) ==
    /\ gs.built
    /\ \E err \in GetOutcomes(objName(k)) :
         LET buf == WrapReader(gs.iowrap, store[objName(k)])
             base == [NoEvent EXCEPT !.op = "Load", !.key = k, !.resp = err,
                                     !.present = store[objName(k)] # Absent,
                                     !.stored = stored[k]]
         IN  last' = IF err # Nil
                     THEN [base EXCEPT !.err = IF IsNotFound(err) THEN ErrNotExist
                                               ELSE err]
                     ELSE IF ~buf[1] THEN [base EXCEPT !.err = ErrDecrypt]
                     ELSE [base EXCEPT !.err = Nil, !.val = buf[2]]
    /\ UNCHANGED <<now, nticks, store, pc, lk, holds, rt, gs, stored>>

Delete(k) ==
    /\ gs.built
    /\ \E err \in RemoveOutcomes(objName(k)) :
         /\ store' = RemoveObject(objName(k), err)
         /\ last' = [NoEvent EXCEPT !.op = "Delete", !.key = k, !.resp = err,
                                    !.err = err,
                                    !.present = store[objName(k)] # Absent]
    /\ stored' = [stored EXCEPT ![k] = Absent]
    /\ UNCHANGED <<now, nticks, pc, lk, holds, rt, gs>>

Exists(k) ==
    /\ gs.built
    /\ \E err \in GetOutcomes(objName(k)) :
         last' = [NoEvent EXCEPT !.op = "Exists", !.key = k, !.resp = err,
                                 !.exists = (err = Nil),
                                 !.present = store[objName(k)] # Absent]
    /\ UNCHANGED <<now, nticks, store, pc, lk, holds, rt, gs, stored>>

\* the range over the channel of ListObjects: every obj.Key is appended,
\* obj.Err is not looked at.  When the listing fails after n objects the
\* channel delivers one more ObjectInfo, with Err set and an empty Key.
List(prefix, recursive) ==
    /\ gs.built
    /\ LET listing == ListObjects(objName(""))
       IN \E err \in ListOutcomes, n \in 0..Len(listing) :
            /\ err = Nil => n = Len(listing)
            /\ last' = [NoEvent EXCEPT
                          !.op = "List", !.key = prefix, !.resp = err,
                          !.err = Nil,
                          !.keys = IF err = Nil THEN listing
                                   ELSE SubSeq(listing, 1, n) \o <<"">>]
    /\ UNCHANGED <<now, nticks, store, pc, lk, holds, rt, gs, stored>>

Stat(k) ==
    /\ gs.built
    /\ \E err \in GetOutcomes(objName(k)) :
         LET base == [NoEvent EXCEPT !.op = "Stat", !.key = k, !.resp = err,
                                     !.present = store[objName(k)] # Absent]
         IN  last' = IF err # Nil
                     THEN [base EXCEPT !.err = IF IsNotFound(err) THEN ErrNotExist
                                               ELSE err]
                     ELSE [base EXCEPT !.err = Nil, !.val = Raw(k)]
    /\ UNCHANGED <<now, nticks, store, pc, lk, holds, rt, gs, stored>>

(***************************************************************************)
(* The system.  Init is the state once NewS3Storage has returned a handle. *)
(* The bucket outlives the handle: it may hold lock files of earlier runs  *)
(* (none, one that does not parse, one written by a node whose clock is    *)
(* ahead).                                                                 *)
(***************************************************************************)
ClockAhead == LockExpiration + 10 * TicksPerSecond

InitialLockFiles == {Absent, Corrupt, FormatRFC3339(ClockAhead)}

InitWith(lockKeys, wrappers) ==
    /\ now = 0
    /\ nticks = 0
    /\ \E f \in [lockKeys -> InitialLockFiles] :
         store = [n \in ObjectNames |->
                    IF n = ForeignObject THEN Raw("foreign")
                    ELSE IF \E k \in lockKeys : n = objLockName(k)
                    THEN f[CHOOSE k \in lockKeys : n = objLockName(k)]
                    ELSE Absent]
    /\ pc = [p \in Callers |-> "idle"]
    /\ lk = [p \in Callers |-> NoCall]
    /\ holds = [p \in Callers |-> {}]
    /\ rt = RtNone
    /\ gs \in {[built |-> TRUE, iowrap |-> w] : w \in wrappers}
    /\ stored = [k \in Keys |-> Absent]
    /\ last = NoEvent

Init == InitWith(Keys, {"CleartextIO", "SecretBoxIO"})

LockStep(p) ==
    LockGet(p) \/ LockDelete(p) \/ putLockFile(p) \/ LockTimer(p) \/ LockCtxDone(p)

NextLockOn(keys, steps) ==
    \/ \E p \in Callers, k \in keys : LockCall(p, k)
    \/ \E p \in Callers : LockGet(p)
    \/ \E p \in Callers : LockDelete(p)
    \/ \E p \in Callers : putLockFile(p)
    \/ \E p \in Callers : LockTimer(p)
    \/ \E p \in Callers : LockCtxDone(p)
    \/ \E p \in Callers : Cancel(p)
    \/ \E p \in Callers, k \in keys : Unlock(p, k)
    \/ \E d \in steps : Tick(d)

NextFacade ==
    \/ NewS3Storage
    \/ \E k \in Keys, v \in Values : Store(k, Raw(v))
    \/ \E k \in Keys : Load(k)
    \/ \E k \in Keys : Delete(k)
    \/ \E k \in Keys : Exists(k)
    \/ \E prefix \in ListPrefixes, recursive \in BOOLEAN : List(prefix, recursive)
    \/ \E k \in Keys : Stat(k)

Next == NextLockOn(Keys, TickSteps) \/ NextFacade

\* the whole system
Spec == Init /\ [][Next]_vars

\* the lock protocol on one key, two callers and the clock
LockInit == InitWith({"a"}, {"CleartextIO"})

LockNext == NextLockOn({"a"}, TickSteps)

LockSpec == LockInit /\ [][LockNext]_vars

\* the facade and the constructor, over the bucket as earlier runs left it
FacadeSpec == Init /\ [][NextFacade]_vars

\* the lock protocol when every running call is scheduled again and again
\* and every request to the bucket is answered
\* (the clock goes by LockTimeout at a time)
LockFairNext == NextLockOn({"a"}, {LockTimeout})

LockFairSpec ==
    LockInit /\ [][LockFairNext]_vars /\ \A p \in Callers : WF_vars(LockStep(p))

\* the lock protocol on key "a" over a bucket in which the handle has stored
\* a value under the key "p/a.lock" (object "p/p/a.lock")
LockMapInit ==
    /\ now = 0
    /\ nticks = 0
    /\ \E f \in InitialLockFiles :
         store = [n \in ObjectNames |->
                    IF n = ForeignObject THEN Raw("foreign")
                    ELSE IF n = objLockName("a") THEN f
                    ELSE IF n = objName(objLockName("a")) THEN Raw("v1")
                    ELSE Absent]
    /\ pc = [p \in Callers |-> "idle"]
    /\ lk = [p \in Callers |-> NoCall]
    /\ holds = [p \in Callers |-> {}]
    /\ rt = RtNone
    /\ gs = [built |-> TRUE, iowrap |-> "CleartextIO"]
    /\ stored = [k \in Keys |-> Absent]
    /\ last = NoEvent

LockMapSpec == LockMapInit /\ [][LockFairNext]_vars

(***************************************************************************)
(* C1.  Mutual exclusion: a Lock(k) that starts while another caller       *)
(* holds k does not return success as long as the lock file it finds is    *)
(* younger than LockExpiration.                                            *)
(***************************************************************************)
C1_MutualExclusion ==
    (last.op = "Lock" /\ last.err = Nil /\ last.prevHeld /\ last.prevTs)
        => last.prevAge >= LockExpiration

(***************************************************************************)
(* C2.  Release is idempotent: Unlock returns nil when the bucket removes  *)
(* the lock file and when it answers that there is none (404), after which *)
(* there is no lock file; it returns an error for every other answer.      *)
(***************************************************************************)
C2_UnlockIdempotent ==
    last.op = "Unlock" =>
        IF last.resp \in {Nil, Resp404}
        THEN last.err = Nil /\ last.recAfter = Absent
        ELSE last.err # Nil

C4_CancellationBounded ==
    /\ \A p \in Callers :
         [](pc[p] # "idle" /\ lk[p].cancelled => <>(pc[p] = "idle"))
    /\ [](\A p \in Callers : lk[p].late <= 1)

C4_Witness == last.op = "Lock" /\ last.err = CtxErr /\ last.late = 1

(***************************************************************************)
(* C5.  Stale reclamation: a Lock call that finds, on its first pass, a    *)
(* lock file older than LockExpiration at the time of the call, and meets  *)
(* no storage error, returns nil on that pass, and the lock file then      *)
(* holds the time of that return.                                          *)
(***************************************************************************)
C5_StaleReclamation ==
    (last.op = "Lock" /\ last.firstStale /\ last.err \in {Nil, CtxErr})
        => /\ last.err = Nil
           /\ last.polls = 0
           /\ last.recAfter = FormatRFC3339(now)
           /\ store[objLockName(last.key)] = last.recAfter

C5_Witness == last.op = "Lock" /\ last.firstStale /\ last.err = Nil

(***************************************************************************)
(* C6.  Lock round trip: after Lock(k) and Unlock(k) of one caller, with   *)
(* nobody else acting on the lock of k, there is no lock file for k, and   *)
(* the caller's next Lock(k), if no storage error hits it, returns nil on  *)
(* its first pass, through the branch for a missing lock file.             *)
(***************************************************************************)
C6_LockRoundTrip ==
    /\ rt.stage = 2 => store[objLockName(rt.key)] = Absent
    /\ (last.op = "Lock" /\ last.rt = 3 /\ last.err \in {Nil, CtxErr})
         => last.err = Nil /\ last.branch = "absent" /\ last.polls = 0

C6_Witness == last.op = "Lock" /\ last.rt = 3 /\ last.err = Nil

(***************************************************************************)
(* C7.  Not-found distinction: Load, Delete and Stat of a key that has no  *)
(* object return fs.ErrNotExist, and any other failure of the bucket makes *)
(* them return an error that is not fs.ErrNotExist.                        *)
(***************************************************************************)
C7_NotFoundDistinction ==
    last.op \in {"Load", "Delete", "Stat"} =>
        /\ (~last.present /\ last.resp \in {Nil, Resp404}) => last.err = ErrNotExist
        /\ last.resp \in {Resp500, NetErr} => last.err \notin {Nil, ErrNotExist}

(***************************************************************************)
(* C8.  Key-length validation precedes all network access: NewS3Storage    *)
(* looks at the key length before it creates the client or asks for the    *)
(* bucket, and with a key of neither 0 nor 32 bytes it returns the key     *)
(* error and no handle, having done neither.                               *)
(***************************************************************************)
NetworkCalls == {"minio.New", "BucketExists"}

C8_KeyLengthFirst ==
    last.op = "NewS3Storage" =>
        /\ \A i \in 1..Len(last.calls) :
             last.calls[i] \in NetworkCalls =>
                \E j \in 1..(i - 1) : last.calls[j] = "len(opts.EncryptionKey)"
        /\ last.keyLen \notin {0, SecretKeyLen} =>
             /\ last.err = ErrKeyLen
             /\ ~last.handle
             /\ \A i \in 1..Len(last.calls) : last.calls[i] \notin NetworkCalls

C8_Witness ==
    last.op = "NewS3Storage" /\ last.keyLen \notin {0, SecretKeyLen}
    /\ last.err = ErrKeyLen

(***************************************************************************)
(* C9.  Store/Load round trip: after a successful Store(k, v) of the       *)
(* handle, with no Store or Delete of k since, Load(k) does not report a   *)
(* missing object and, when the bucket answers, returns v; with            *)
(* CleartextIO the object in the bucket is v.                              *)
(***************************************************************************)
C9_StoreLoadRoundTrip ==
    /\ (last.op = "Load" /\ last.stored # Absent) =>
          /\ last.err # ErrNotExist
          /\ last.resp = Nil => (last.err = Nil /\ last.val = last.stored)
    /\ gs.iowrap = "CleartextIO" =>
          \A k \in Keys : stored[k] # Absent => store[objName(k)] = stored[k]

C9_Witness ==
    /\ last.op = "Load" /\ last.stored # Absent /\ last.err = Nil
    /\ gs.iowrap = "SecretBoxIO" /\ store[objName(last.key)] # last.val

(***************************************************************************)
(* C10.  List(prefix), when the listing does not fail, returns exactly the *)
(* keys of the objects whose name begins with objName(prefix).             *)
(***************************************************************************)
C10_ListByPrefix ==
    (last.op = "List" /\ last.resp = Nil) =>
        {last.keys[i] : i \in 1..Len(last.keys)} =
            {n \in ObjectNames : store[n] # Absent /\ HasPrefix(n, objName(last.key))}

(***************************************************************************)
(* C11.  Independence of keys: a Lock(k) call leaves every object of the   *)
(* bucket other than the lock file of k as it was: it removes no object of *)
(* another key.                                                            *)
(***************************************************************************)
C11_KeyIndependence ==
    last.op = "Lock" => last.foreign = 0

(***************************************************************************)
(* C12.  Consistent key mapping: when Lock deletes on the stale branch,    *)
(* the object it asks the bucket to remove is the lock file it has read,   *)
(* objLockName(key).                                                       *)
(***************************************************************************)
C12_ConsistentKeyMapping ==
    (last.op = "Lock" /\ last.deleted # "") => last.deleted = objLockName(last.key)

(***************************************************************************)
(* C13.  Storage errors abort acquisition: when a request of a Lock call   *)
(* (the read, the delete of the stale branch, the write) is answered with  *)
(* an error other than 404, the call returns an error and, if it was the   *)
(* delete, it does not go on to write the lock file.                       *)
(***************************************************************************)
C13_StorageErrorsAbort ==
    last.op = "Lock" =>
        /\ last.resp \notin {Nil, Resp404} => last.err # Nil
        /\ last.delErr \in {Resp500, NetErr} => (last.err # Nil /\ ~last.put)

(***************************************************************************)
(* C14.  Acquisition race: the read and the write of the lock file are two *)
(* steps, and the write is unconditional.  A caller that has read "no lock *)
(* file" can always complete its write and return nil, also when another   *)
(* caller that read the same has written the lock file and returned nil in *)
(* between; C14_Witness is the state in which both then hold the lock.     *)
(***************************************************************************)
C14_AcquisitionRace ==
    /\ \A p \in Callers :
         (pc[p] = "put" /\ lk[p].branch = "absent") =>
            ENABLED (/\ putLockFile(p)
                     /\ last'.err = Nil
                     /\ lk[p].key \in holds'[p])
    /\ (last.op = "Lock" /\ last.rival /\ last.put /\ last.resp = Nil)
         => last.err = Nil /\ last.key \in holds[last.caller]

C14_Witness ==
    /\ last.op = "Lock" /\ last.err = Nil /\ last.branch = "absent"
    /\ last.rival /\ last.prevTs
    /\ \A p \in Callers : last.key \in holds[p]

(***************************************************************************)
(* C15.  Dead-holder recovery while polling: the age test of every pass is *)
(* made against the current time, so a Lock call that has polled never     *)
(* goes back to wait on a lock file whose age (now minus its time) exceeds *)
(* LockExpiration.                                                         *)
(***************************************************************************)
C15_RecoveryWhilePolling ==
    \A p \in Callers : (pc[p] = "select" /\ lk[p].polls = 1) => ~lk[p].overdue

(***************************************************************************)
(* C16.  Presence/absence: when there is no lock file for k, no caller     *)
(* holds the lock of k.  In particular, once a caller that holds k has     *)
(* released it with success, so that the lock file is gone, nobody holds   *)
(* k.                                                                      *)
(***************************************************************************)
C16_AbsentMeansFree ==
    (last.op = "Unlock" /\ last.held /\ last.err = Nil
        /\ store[objLockName(last.key)] = Absent)
        => \A q \in Callers : last.key \notin holds[q]

(***************************************************************************)
(* C17.  Self-healing of corrupt lock files: a Lock call that reads a lock *)
(* file time.Parse rejects goes on to write without waiting and, when the  *)
(* bucket accepts the write, returns nil with the lock file holding the    *)
(* current time; every lock file Lock writes parses; a call waits only on  *)
(* a lock file that parses.                                                *)
(***************************************************************************)
C17_CorruptSelfHealing ==
    /\ (last.op = "Lock" /\ last.branch = "corrupt" /\ last.resp = Nil)
         => /\ last.err = Nil
            /\ last.put
            /\ last.recAfter = FormatRFC3339(now)
    /\ (last.op = "Lock" /\ last.put /\ last.resp = Nil)
         => ParseRFC3339(last.recAfter) = <<TRUE, now - (now % TicksPerSecond)>>
    /\ \A p \in Callers : pc[p] = "select" => lk[p].branch = "held"

C17_Witness ==
    last.op = "Lock" /\ last.branch = "corrupt" /\ last.err = Nil /\ last.polls = 0

(***************************************************************************)
(* C18.  Waiter progress after release: every pass of the loop reads the   *)
(* lock file again.  A Lock call that waits, whose timer has run out, with *)
(* the lock file gone, returns unless somebody writes the lock file again; *)
(* and a call that finds no lock file on a pass after a wait returns nil   *)
(* with its own lock file written, when the bucket accepts the write.      *)
(***************************************************************************)
C18_WaiterProgress ==
    /\ \A p \in Callers, k \in Keys :
         []((/\ pc[p] = "select"
             /\ lk[p].key = k
             /\ now >= lk[p].wakeAt
             /\ store[objLockName(k)] = Absent)
              => <>(pc[p] = "idle" \/ store[objLockName(k)] # Absent))
    /\ []((last.op = "Lock" /\ last.polls = 1 /\ last.branch = "absent"
             /\ last.resp = Nil)
            => /\ last.err = Nil
               /\ last.put
               /\ last.recAfter = FormatRFC3339(now)
               /\ last.key \in holds[last.caller])

C18_Witness ==
    /\ last.op = "Lock" /\ last.polls = 1 /\ last.branch = "absent"
    /\ last.err = Nil /\ last.late = 0

(***************************************************************************)
(* C19.  No error is downgraded to success in the facade: when the request *)
(* of Store, Load, Delete, Stat or List fails with an error other than     *)
(* 404 (for List: when the listing ends with an error), the operation      *)
(* returns an error.                                                       *)
(***************************************************************************)
C19_NoErrorDowngraded ==
    (last.op \in {"Store", "Load", "Delete", "Stat", "List"}
        /\ last.resp \in {Resp500, NetErr})
        => last.err # Nil

====
